---- MODULE Spec2Model ----
(***************************************************************************)
(* A model of psychrochart/util.py: the convex hull builder                *)
(* (orientation, convex_hull_graham_scan), the step solver (_iter_solver)  *)
(* and the family batch solver (solve_curves_with_iteration).              *)
(*                                                                         *)
(* Numbers.  The program computes with floats; the model computes with     *)
(* exact integers.  Hull points lie on an integer grid, where the cross    *)
(* product of orientation() is exact, and the order of two arctan2 values  *)
(* is decided by the sign of a cross product (exact for real angles; float *)
(* rounding of arctan2 is not modelled).  Solver quantities are integer    *)
(* multiples of a tick chosen so that every precision/20 and every halving *)
(* that the runs perform is exact.                                         *)
(***************************************************************************)
EXTENDS Integers, Sequences, FiniteSets, TLC

VARIABLES
    \* ---- convex_hull_graham_scan ----
    points,         \* the argument: a sequence of <<x, y>>
    leftp,          \* line 66
    sorted_points,  \* line 69
    hull,           \* the hull stack, line 80
    i,              \* the for loop's index (Python, 0-based), line 81
    hull_x, hull_y, \* line 89
    hull_pc,        \* "idle" | "call" | "scan" | "done" | "failed"
    hull_result,    \* "none" | "returned" | "AssertionError" | "IndexError"
    calls,          \* ghost: how many calls were made (1 or 2)
    first_input,    \* ghost: the argument of the first call
    first_hull,     \* ghost: what the first call returned, <<hull_x, hull_y>>
    \* ---- _iter_solver ----
    func_eval,          \* the evaluation function, see Eval
    initial_value, objective_value, initial_increment, num_iters_max,
    precision,          \* the other arguments
    decreasing, increment, num_iter, value_calc, error,   \* lines 103-107
    iteration_value,    \* line 109
    solver_pc,          \* "idle" | "entry" | "loop" | "returned" | "raised"
    last_step,          \* ghost: the direction of the step before, "none" | "down" | "up"
    \* ---- solve_curves_with_iteration ----
    TESTING_MODE,       \* line 9
    family_name, objective_values, func_init,   \* the arguments (with func_eval)
    calc_points,        \* line 156
    idx,                \* how many objectives the for loop has finished
    batch_pc,           \* "idle" | "call" | "for" | "solving" | "done" | "failed"
    batch_result,       \* "none" | "returned" | the error raised
    batch_return,       \* the array returned
    init_calls          \* ghost: the indices (0-based) func_init was called for

hullVars == << points, leftp, sorted_points, hull, i, hull_x, hull_y,
               hull_pc, hull_result, calls, first_input, first_hull >>

solverVars == << func_eval, initial_value, objective_value, initial_increment,
                 num_iters_max, precision, decreasing, increment, num_iter,
                 value_calc, error, iteration_value, solver_pc, last_step >>

batchVars == << TESTING_MODE, family_name, objective_values, func_init,
                calc_points, idx, batch_pc, batch_result, batch_return,
                init_calls >>

vars == << hullVars, solverVars, batchVars >>

\* ------------------------------------------------------------------ bounds
\* Grid coordinates run over 0..GridMax.
GridMax == 2
\* The longest point list given to convex_hull_graham_scan.
MaxPoints == 4
\* The solver's initial values run over 4 * (-MaxK .. MaxK) ticks.
MaxK == 21
\* A small iteration budget given to the solver as num_iters_max.
MaxIters == 6
\* The longest objective list given to solve_curves_with_iteration.
MaxObjectives == 3

\* ------------------------------------------------------------- helpers
Abs(x) == IF x < 0 THEN -x ELSE x
Max2(a, b) == IF a >= b THEN a ELSE b
Min2(a, b) == IF a <= b THEN a ELSE b
Front(s) == SubSeq(s, 1, Len(s) - 1)
Range(s) == { s[k] : k \in 1..Len(s) }

\* ============================================================ orientation
\* orientation(p, q, r): 0 colinear, 1 clockwise, 2 counterclockwise.
orientation(p, q, r) ==
    LET val == (q[2] - p[2]) * (r[1] - q[1]) - (q[1] - p[1]) * (r[2] - q[2])
    IN  IF val = 0 THEN 0 ELSE IF val > 0 THEN 1 ELSE 2

\* ================================================ convex_hull_graham_scan
\* Python's order of tuples: by first component, then by second.
TupleLess(a, b) == a[1] < b[1] \/ (a[1] = b[1] /\ a[2] < b[2])

\* min(points)
RECURSIVE MinPoint(_)
MinPoint(s) ==
    IF Len(s) = 1 THEN s[1]
    ELSE LET m == MinPoint(Tail(s))
         IN  IF TupleLess(m, s[1]) THEN m ELSE s[1]

\* [p for p in points if p != leftp]
RECURSIVE NotLeftp(_, _)
NotLeftp(s, lp) ==
    IF s = << >> THEN << >>
    ELSE IF s[1] = lp THEN NotLeftp(Tail(s), lp)
         ELSE << s[1] >> \o NotLeftp(Tail(s), lp)

\* arctan2(a - lp) < arctan2(b - lp).  Every point other than lp has
\* dx > 0, or dx = 0 and dy > 0 (lp is the least tuple), so both angles lie
\* in (-pi/2, pi/2] and their order is the sign of the cross product.
AngleLess(lp, a, b) ==
    (a[1] - lp[1]) * (b[2] - lp[2]) - (a[2] - lp[2]) * (b[1] - lp[1]) > 0

AngleEq(lp, a, b) ==
    (a[1] - lp[1]) * (b[2] - lp[2]) - (a[2] - lp[2]) * (b[1] - lp[1]) = 0

\* Mutant of the sort key: the angle is left out, (x, y) alone orders.
KeyLess_noAngle(lp, a, b) == TupleLess(a, b)

\* key(a) < key(b) for key = (arctan2(..), x[0], x[1])
KeyLess(lp, a, b) ==
    AngleLess(lp, a, b) \/ (AngleEq(lp, a, b) /\ TupleLess(a, b))

\* sorted(..., key=...): a stable insertion of each element in turn.
RECURSIVE InsertByKey(_, _, _)
InsertByKey(s, x, lp) ==
    IF s = << >> THEN << x >>
    ELSE IF KeyLess(lp, x, s[1]) THEN << x >> \o s
         ELSE << s[1] >> \o InsertByKey(Tail(s), x, lp)

RECURSIVE SortByKey(_, _)
SortByKey(s, lp) ==
    IF s = << >> THEN << >>
    ELSE InsertByKey(SortByKey(Front(s), lp), s[Len(s)], lp)

\* Mutant of the pop loop: only a clockwise turn pops.
RECURSIVE PopWhile_clockwiseOnly(_, _)
PopWhile_clockwiseOnly(h, pt) ==
    IF Len(h) > 1 /\ orientation(h[Len(h) - 1], h[Len(h)], pt) = 1
    THEN PopWhile_clockwiseOnly(Front(h), pt)
    ELSE h

\* while len(hull) > 1 and orientation(hull[-2], hull[-1], pt) != 2: pop
RECURSIVE PopWhile(_, _)
PopWhile(h, pt) ==
    IF Len(h) > 1 /\ orientation(h[Len(h) - 1], h[Len(h)], pt) # 2
    THEN PopWhile(Front(h), pt)
    ELSE h

\* list(zip(*hull)) and back
Xs(h) == [ k \in 1..Len(h) |-> h[k][1] ]
Ys(h) == [ k \in 1..Len(h) |-> h[k][2] ]
Zip(xs, ys) == [ k \in 1..Len(xs) |-> << xs[k], ys[k] >> ]

\* Mutant of the unzip: the two coordinate lists come back exchanged.
Unzip_exchanged(h) == << Ys(h), Xs(h) >>

\* hull_x, hull_y = list(zip(*hull))
Unzip(h) == << Xs(h), Ys(h) >>

NoPoint == << -1, -1 >>

\* Lines 61-80: the precondition, the pivot, the sort, the initial stack.
HullCall ==
    /\ hull_pc = "call"
    /\ IF Len(points) < 3
       THEN /\ hull_pc' = "failed"
            /\ hull_result' = "AssertionError"
            /\ UNCHANGED << leftp, sorted_points, hull, i >>
       ELSE LET lp == MinPoint(points)
                sp == SortByKey(NotLeftp(points, lp), lp)
            IN  /\ leftp' = lp
                /\ sorted_points' = sp
                /\ IF sp = << >>
                   THEN \* sorted_points[0] raises IndexError
                        /\ hull_pc' = "failed"
                        /\ hull_result' = "IndexError"
                        /\ UNCHANGED << hull, i >>
                   ELSE /\ hull' = << lp, sp[1] >>
                        /\ i' = 1
                        /\ hull_pc' = "scan"
                        /\ UNCHANGED hull_result
    /\ UNCHANGED << points, hull_x, hull_y, calls, first_input, first_hull >>

\* Lines 81-87: one iteration of the for loop (its pops, then its push).
HullScan ==
    /\ hull_pc = "scan"
    /\ i < Len(sorted_points)
    /\ hull' = Append(PopWhile(hull, sorted_points[i + 1]),
                      sorted_points[i + 1])
    /\ i' = i + 1
    /\ UNCHANGED << points, leftp, sorted_points, hull_x, hull_y, hull_pc,
                    hull_result, calls, first_input, first_hull >>

\* Lines 89-91: the loop is over; unzip, assert, return.
HullReturn ==
    /\ hull_pc = "scan"
    /\ i >= Len(sorted_points)
    /\ hull_x' = Unzip(hull)[1]
    /\ hull_y' = Unzip(hull)[2]
    /\ IF Len(hull) >= 2
       THEN hull_pc' = "done" /\ hull_result' = "returned"
       ELSE hull_pc' = "failed" /\ hull_result' = "AssertionError"
    /\ UNCHANGED << points, leftp, sorted_points, hull, i, calls,
                    first_input, first_hull >>

\* The caller gives the returned hull points back to the function.
HullCallAgain ==
    /\ hull_pc = "done"
    /\ calls = 1
    /\ points' = Zip(hull_x, hull_y)
    /\ first_hull' = << hull_x, hull_y >>
    /\ calls' = 2
    /\ hull_pc' = "call"
    /\ hull_result' = "none"
    /\ leftp' = NoPoint
    /\ sorted_points' = << >>
    /\ hull' = << >>
    /\ i' = 0
    /\ hull_x' = << >>
    /\ hull_y' = << >>
    /\ UNCHANGED first_input

\* =========================================================== _iter_solver
\* NUM_ITERS_MAX, the default of num_iters_max.
NUM_ITERS_MAX == 100

\* func_eval: an evaluation function is a record; "scaled" is v |-> k * v
\* (strictly increasing for k > 0, strictly decreasing for k < 0), "capped"
\* is v |-> min(v, k) (not strictly monotonic, bounded above by k).
Eval(f, v) ==
    IF f.kind = "scaled" THEN f.k * v ELSE Min2(v, f.k)

StrictlyMonotonic(f) == f.kind = "scaled" /\ f.k # 0

\* precision / 20; every precision of the model is a multiple of 20.
Floor(prec) == prec \div 20

\* increment / 2.  The increments of the model are even whenever their half
\* is kept; an odd increment's half lies below the floor and is replaced by
\* it, as is the integer quotient.
Half(inc) == inc \div 2

\* Mutant of the overshoot test: every step halves.
NeedsHalving_always(err, dec) == TRUE

\* Lines 113-116 and 119-122: the increment is halved when the flag
\* `decreasing` does not agree with the sign of the error.
NeedsHalving(err, dec) ==
    IF err < 0 THEN ~dec ELSE dec

\* Lines 114-117 and 120-123: halve on a change of direction, then floor.
NextIncrement(err, dec, inc, prec) ==
    Max2(Floor(prec), IF NeedsHalving(err, dec) THEN Half(inc) ELSE inc)

\* Lines 103-107: the state at the first test of the while condition.
Enter(f, init, obj, inc0) ==
    [ decreasing |-> TRUE, increment |-> inc0, num_iter |-> 0,
      value_calc |-> init, error |-> obj - Eval(f, init),
      iteration_value |-> 0, pc |-> "loop", last_step |-> "none" ]

\* Line 108: the while condition.
LoopGuard(s, prec, max) == Abs(s.error) > prec /\ s.num_iter < max

\* Line 111: the break test.
Converged(err, prec) == Abs(err) < prec

\* Lines 109-132: one pass of the loop body.  The break leaves the loop and
\* the function returns (line 133); the pass that makes num_iter equal to
\* num_iters_max raises.
Iterate(s, f, obj, prec, max) ==
    LET iv == Eval(f, s.value_calc)
        err == obj - iv
    IN  IF Converged(err, prec)
        THEN [ s EXCEPT !.iteration_value = iv, !.error = err,
                        !.pc = "returned" ]
        ELSE LET inc == NextIncrement(err, s.decreasing, s.increment, prec)
                 n == s.num_iter + 1
             IN  [ decreasing |-> err < 0,
                   increment |-> inc,
                   num_iter |-> n,
                   value_calc |-> IF err < 0 THEN s.value_calc - inc
                                  ELSE s.value_calc + inc,
                   error |-> err,
                   iteration_value |-> iv,
                   pc |-> IF n = max THEN "raised" ELSE "loop",
                   last_step |-> IF err < 0 THEN "down" ELSE "up" ]

\* Line 133: the while condition is false; return value_calc, num_iter.
Exit(s) == [ s EXCEPT !.pc = "returned" ]

\* The solver's variables as one record, and their next values from one.
SolverRec ==
    [ decreasing |-> decreasing, increment |-> increment,
      num_iter |-> num_iter, value_calc |-> value_calc, error |-> error,
      iteration_value |-> iteration_value, pc |-> solver_pc,
      last_step |-> last_step ]

SetSolver(r) ==
    /\ decreasing' = r.decreasing
    /\ increment' = r.increment
    /\ num_iter' = r.num_iter
    /\ value_calc' = r.value_calc
    /\ error' = r.error
    /\ iteration_value' = r.iteration_value
    /\ solver_pc' = r.pc
    /\ last_step' = r.last_step

SolverArgs == << func_eval, initial_value, objective_value,
                 initial_increment, num_iters_max, precision >>

SolverEnter ==
    /\ solver_pc = "entry"
    /\ SetSolver(Enter(func_eval, initial_value, objective_value,
                       initial_increment))
    /\ UNCHANGED SolverArgs

SolverIterate ==
    /\ solver_pc = "loop"
    /\ LoopGuard(SolverRec, precision, num_iters_max)
    /\ SetSolver(Iterate(SolverRec, func_eval, objective_value, precision,
                         num_iters_max))
    /\ UNCHANGED SolverArgs

SolverExit ==
    /\ solver_pc = "loop"
    /\ ~LoopGuard(SolverRec, precision, num_iters_max)
    /\ SetSolver(Exit(SolverRec))
    /\ UNCHANGED SolverArgs

\* _iter_solver as a function of its arguments: the record at its end.
RECURSIVE RunFrom(_, _, _, _, _)
RunFrom(s, f, obj, prec, max) ==
    IF s.pc # "loop" THEN s
    ELSE IF LoopGuard(s, prec, max)
         THEN RunFrom(Iterate(s, f, obj, prec, max), f, obj, prec, max)
         ELSE Exit(s)

RunSolver(f, init, obj, inc0, prec, max) ==
    RunFrom(Enter(f, init, obj, inc0), f, obj, prec, max)

\* ============================================ solve_curves_with_iteration
\* One unit of the solved variable, in ticks: the least scale at which the
\* families' precision/20 (1/2000 and 1/80000) and every halving of their
\* initial increments down to that floor are whole numbers.
Unit == 625 * 65536

\* families: checking precision | initial_increment | precision
families ==
    ("ENTHALPHY" :> << Unit \div 100, Unit \div 2, Unit \div 100 >>) @@
    ("CONSTANT VOLUME" :> << Unit \div 2000, Unit, Unit \div 4000 >>)

\* Mutant of the unpacking: the checking precision is taken for the
\* solver's precision.
FamilyPrecision_checking(name) == families[name][1]

\* precision_comp, initial_increment, precision = families[family_name]
FamilyPrecisionComp(name) == families[name][1]
FamilyInitialIncrement(name) == families[name][2]
FamilyPrecision(name) == families[name][3]

\* func_init: the initial guess is the objective plus an offset.
FuncInit(g, objective) == objective + g.k

\* Mutant of the handler: a convergence error is never re-raised.
ReraiseConvergence_never(testing) == FALSE

\* Lines 168-171: the handler re-raises in testing mode, else returns.
ReraiseConvergence(testing) == testing

\* Mutant of the check: made in every mode.
BadResult_anyMode(testing, objective, f, calc_p, precision_comp) ==
    Abs(objective - Eval(f, calc_p)) > precision_comp

\* Lines 173-175: the result check of testing mode.
BadResult(testing, objective, f, calc_p, precision_comp) ==
    testing /\ Abs(objective - Eval(f, calc_p)) > precision_comp

BatchArgs == << TESTING_MODE, family_name, objective_values, func_init >>

\* Lines 145-156: the family lookup.
BatchCall ==
    /\ batch_pc = "call"
    /\ IF family_name \notin DOMAIN families
       THEN /\ batch_pc' = "failed"
            /\ batch_result' = "ConfigurationError"
       ELSE /\ batch_pc' = "for"
            /\ UNCHANGED batch_result
    /\ calc_points' = << >>
    /\ idx' = 0
    /\ UNCHANGED << BatchArgs, batch_return, init_calls, solverVars >>

\* Lines 157-165: the next objective; func_init is called and _iter_solver
\* is entered with the family's increment and precision and the default
\* num_iters_max.
BatchSolve ==
    /\ batch_pc = "for"
    /\ idx < Len(objective_values)
    /\ initial_value' = FuncInit(func_init, objective_values[idx + 1])
    /\ objective_value' = objective_values[idx + 1]
    /\ initial_increment' = FamilyInitialIncrement(family_name)
    /\ precision' = FamilyPrecision(family_name)
    /\ num_iters_max' = NUM_ITERS_MAX
    /\ solver_pc' = "entry"
    /\ init_calls' = Append(init_calls, idx)
    /\ batch_pc' = "solving"
    /\ UNCHANGED << func_eval, decreasing, increment, num_iter, value_calc,
                    error, iteration_value, last_step >>
    /\ UNCHANGED << BatchArgs, calc_points, idx, batch_result, batch_return >>

\* Lines 166-184: _iter_solver has raised or returned.
BatchSolved ==
    /\ batch_pc = "solving"
    /\ solver_pc \in { "raised", "returned" }
    /\ IF solver_pc = "raised"
       THEN IF ReraiseConvergence(TESTING_MODE)
            THEN /\ batch_pc' = "failed"
                 /\ batch_result' = "ConvergenceError"
                 /\ UNCHANGED << calc_points, idx, batch_return >>
            ELSE /\ batch_pc' = "done"
                 /\ batch_result' = "returned"
                 /\ batch_return' = calc_points
                 /\ UNCHANGED << calc_points, idx >>
       ELSE IF BadResult(TESTING_MODE, objective_values[idx + 1], func_eval,
                         value_calc, FamilyPrecisionComp(family_name))
            THEN /\ batch_pc' = "failed"
                 /\ batch_result' = "ResultQualityError"
                 /\ UNCHANGED << calc_points, idx, batch_return >>
            ELSE /\ calc_points' = Append(calc_points, value_calc)
                 /\ idx' = idx + 1
                 /\ batch_pc' = "for"
                 /\ UNCHANGED << batch_result, batch_return >>
    /\ UNCHANGED << BatchArgs, init_calls, solverVars >>

\* Line 185: the loop is over.
BatchReturn ==
    /\ batch_pc = "for"
    /\ idx >= Len(objective_values)
    /\ batch_pc' = "done"
    /\ batch_result' = "returned"
    /\ batch_return' = calc_points
    /\ UNCHANGED << BatchArgs, calc_points, idx, init_calls, solverVars >>

\* ========================================================= specifications
SolverIdle ==
    /\ func_eval = [ kind |-> "scaled", k |-> 1 ]
    /\ initial_value = 0 /\ objective_value = 0 /\ initial_increment = 0
    /\ num_iters_max = 0 /\ precision = 0
    /\ decreasing = TRUE /\ increment = 0 /\ num_iter = 0 /\ value_calc = 0
    /\ error = 0 /\ iteration_value = 0
    /\ solver_pc = "idle" /\ last_step = "none"

HullIdle ==
    /\ points = << >> /\ leftp = NoPoint /\ sorted_points = << >>
    /\ hull = << >> /\ i = 0 /\ hull_x = << >> /\ hull_y = << >>
    /\ hull_pc = "idle" /\ hull_result = "none" /\ calls = 0
    /\ first_input = << >> /\ first_hull = << >>

BatchIdle ==
    /\ TESTING_MODE = FALSE /\ family_name = "" /\ objective_values = << >>
    /\ func_init = [ kind |-> "offset", k |-> 0 ]
    /\ calc_points = << >> /\ idx = 0 /\ batch_pc = "idle"
    /\ batch_result = "none" /\ batch_return = << >> /\ init_calls = << >>

\* ---- the hull builder alone
Grid == (0..GridMax) \X (0..GridMax)

\* The point lists of length n over the grid in non-decreasing tuple order:
\* one list per multiset (min() and sorted() with a total key do not depend
\* on the order of the argument).
RECURSIVE PointLists(_)
PointLists(n) ==
    IF n = 0 THEN { << >> }
    ELSE UNION { { Append(s, p) :
                     p \in { q \in Grid : s = << >> \/ ~TupleLess(q, s[Len(s)]) } } :
                 s \in PointLists(n - 1) }

HullInputs == UNION { PointLists(n) : n \in 0..MaxPoints }

HullInit ==
    /\ SolverIdle
    /\ BatchIdle
    /\ points \in HullInputs
    /\ leftp = NoPoint
    /\ sorted_points = << >>
    /\ hull = << >>
    /\ i = 0
    /\ hull_x = << >>
    /\ hull_y = << >>
    /\ hull_pc = "call"
    /\ hull_result = "none"
    /\ calls = 1
    /\ first_input = points
    /\ first_hull = << >>

HullNext ==
    \/ HullCall /\ UNCHANGED << solverVars, batchVars >>
    \/ HullScan /\ UNCHANGED << solverVars, batchVars >>
    \/ HullReturn /\ UNCHANGED << solverVars, batchVars >>
    \/ HullCallAgain /\ UNCHANGED << solverVars, batchVars >>

SpecHull == HullInit /\ [][HullNext]_vars

\* ---- the step solver alone
\* Quantities are in ticks; a precision of 20 ticks has a floor of 1 tick.
SolverFuncs ==
    { [ kind |-> "scaled", k |-> 1 ], [ kind |-> "scaled", k |-> 2 ],
      [ kind |-> "scaled", k |-> 64 ], [ kind |-> "scaled", k |-> -1 ],
      [ kind |-> "capped", k |-> 8 ] }

SolverValues == { 4 * k : k \in (-MaxK)..MaxK }

SolverInit ==
    /\ HullIdle
    /\ BatchIdle
    /\ func_eval \in SolverFuncs
    /\ initial_value \in SolverValues
    /\ objective_value \in { -8, 0, 8, 128 }
    /\ initial_increment \in { 1, 8, 64 }
    /\ num_iters_max \in { 0, 1, MaxIters, NUM_ITERS_MAX }
    /\ precision \in { 20, 40 }
    /\ decreasing = TRUE /\ increment = 0 /\ num_iter = 0 /\ value_calc = 0
    /\ error = 0 /\ iteration_value = 0
    /\ solver_pc = "entry" /\ last_step = "none"

SolverNext ==
    \/ SolverEnter /\ UNCHANGED << hullVars, batchVars >>
    \/ SolverIterate /\ UNCHANGED << hullVars, batchVars >>
    \/ SolverExit /\ UNCHANGED << hullVars, batchVars >>

SpecSolver == SolverInit /\ [][SolverNext]_vars

\* ---- the family batch solver, driving the step solver
\* An evaluation function bounded above by 3/8 of a unit: the objective 1/2
\* is out of its range.
BatchFuncs ==
    { [ kind |-> "scaled", k |-> 1 ], [ kind |-> "scaled", k |-> 2 ],
      [ kind |-> "capped", k |-> 3 * (Unit \div 8) ] }

BatchObjectives == { 0, Unit \div 4, Unit \div 2 }

\* Initial guesses: at the objective, 1/200 above it, a quarter unit off
\* either way, and initial_increment + precision above it for each family.
InitOffsets ==
    { 0, Unit \div 200, Unit \div 4, -(Unit \div 4),
      (Unit \div 2) + (Unit \div 100), Unit + (Unit \div 4000) }

RECURSIVE ObjectiveLists(_)
ObjectiveLists(n) ==
    IF n = 0 THEN { << >> }
    ELSE { Append(s, o) : s \in ObjectiveLists(n - 1), o \in BatchObjectives }

BatchInit ==
    /\ HullIdle
    /\ func_eval \in BatchFuncs
    /\ initial_value = 0 /\ objective_value = 0 /\ initial_increment = 0
    /\ num_iters_max = 0 /\ precision = 0
    /\ decreasing = TRUE /\ increment = 0 /\ num_iter = 0 /\ value_calc = 0
    /\ error = 0 /\ iteration_value = 0
    /\ solver_pc = "idle" /\ last_step = "none"
    /\ TESTING_MODE \in BOOLEAN
    /\ family_name \in { "ENTHALPHY", "CONSTANT VOLUME", "OTHER" }
    /\ objective_values \in UNION { ObjectiveLists(n) : n \in 0..MaxObjectives }
    /\ func_init \in { [ kind |-> "offset", k |-> o ] : o \in InitOffsets }
    /\ calc_points = << >> /\ idx = 0 /\ batch_pc = "call"
    /\ batch_result = "none" /\ batch_return = << >> /\ init_calls = << >>

BatchNext ==
    \/ BatchCall /\ UNCHANGED hullVars
    \/ BatchSolve /\ UNCHANGED hullVars
    \/ SolverEnter /\ UNCHANGED << hullVars, batchVars >>
    \/ SolverIterate /\ UNCHANGED << hullVars, batchVars >>
    \/ SolverExit /\ UNCHANGED << hullVars, batchVars >>
    \/ BatchSolved /\ UNCHANGED hullVars
    \/ BatchReturn /\ UNCHANGED hullVars

SpecBatch == BatchInit /\ [][BatchNext]_vars

\* ------------------------------------------------- hull: claim formulas
\* The vertex after H[k] on the closed polygon (the last joins the first).
CycNext(H, k) == H[(k % Len(H)) + 1]

\* pt lies between a and b on the segment from a to b.
OnSegment(a, b, pt) ==
    /\ orientation(a, b, pt) = 0
    /\ Min2(a[1], b[1]) <= pt[1] /\ pt[1] <= Max2(a[1], b[1])
    /\ Min2(a[2], b[2]) <= pt[2] /\ pt[2] <= Max2(a[2], b[2])

\* pt lies on or inside the closed polygon H: on the segment when H has two
\* vertices, else on or to the left of every edge of H taken in order.
InsideOrOn(pt, H) ==
    IF Len(H) = 2 THEN OnSegment(H[1], H[2], pt)
    ELSE \A k \in 1..Len(H) : orientation(H[k], CycNext(H, k), pt) # 1

Returned == hull_result = "returned"
Ended == hull_pc \in { "done", "failed" }
Result == Zip(hull_x, hull_y)

\* C6: whenever convex_hull_graham_scan returns, every input point lies on
\* or inside the closed polygon of the returned vertices, and every returned
\* vertex is an input point.
C6_Containment ==
    Returned =>
        /\ \A k \in 1..Len(points) : InsideOrOn(points[k], Result)
        /\ Range(Result) \subseteq Range(points)

\* C6 witness: a first call returned a polygon of 3 or more vertices for an
\* input with a point strictly inside it.
C6_Witness ==
    /\ Returned /\ calls = 1 /\ Len(hull_x) >= 3
    /\ \E k \in 1..Len(points) :
          \A j \in 1..Len(hull_x) :
              orientation(Result[j], CycNext(Result, j), points[k]) = 2

\* C7 (as claimed): a call with fewer than 3 points ends in the precondition
\* AssertionError, and a call with 3 or more points (repeated and
\* all-identical points included) returns two sequences of equal length >= 2.
C7_Claim ==
    Ended =>
        IF Len(points) < 3
        THEN hull_result = "AssertionError"
        ELSE /\ Returned
             /\ Len(hull_x) = Len(hull_y)
             /\ Len(hull_x) >= 2

\* C8 (as claimed): for every input of 3 or more points, the second call, on
\* the points the first call returned, returns the same hull.
C8_Original ==
    (calls = 2 /\ Ended) =>
        (Returned /\ << hull_x, hull_y >> = first_hull)

\* C8 (amended): when the first call returned a hull of 3 or more vertices,
\* the second call, on those vertices, returns the same vertices in the same
\* order.
C8_IdempotentFrom3 ==
    (calls = 2 /\ Ended /\ Len(first_hull[1]) >= 3) =>
        (Returned /\ << hull_x, hull_y >> = first_hull)

\* C8 witness: the second call has returned, and the first call had dropped
\* input points from a hull of 3 or more vertices.
C8_Witness ==
    /\ calls = 2 /\ Returned
    /\ Len(first_hull[1]) >= 3
    /\ Len(first_input) > Len(first_hull[1])

\* C9: the hull stack's consecutive triples are counterclockwise after every
\* push; the returned hull starts at the least input point, lists the other
\* vertices in strictly increasing polar angle around it, and with 3 or more
\* vertices every cyclically consecutive triple is counterclockwise.
C9_MinimalConvex ==
    /\ hull_pc \in { "scan", "done" } =>
          \A k \in 1..(Len(hull) - 2) :
              orientation(hull[k], hull[k + 1], hull[k + 2]) = 2
    /\ Returned =>
          /\ Result[1] = MinPoint(points)
          /\ \A k \in 2..(Len(Result) - 1) :
                (Result[k][1] - Result[1][1]) * (Result[k + 1][2] - Result[1][2])
                  - (Result[k][2] - Result[1][2]) * (Result[k + 1][1] - Result[1][1])
                  > 0
          /\ Len(Result) >= 3 =>
                \A k \in 1..Len(Result) :
                    orientation(Result[k], CycNext(Result, k),
                                CycNext(Result, (k % Len(Result)) + 1)) = 2

\* C9 witness: a first call returned 3 or more vertices and left out an
\* input point that lies on an edge of the hull.
C9_Witness ==
    /\ Returned /\ calls = 1 /\ Len(hull_x) >= 3
    /\ \E k \in 1..Len(points) :
          /\ points[k] \notin Range(Result)
          /\ \E j \in 1..Len(hull_x) :
                OnSegment(Result[j], CycNext(Result, j), points[k])

\* ----------------------------------------------- solver: claim formulas
Residual == Abs(objective_value - Eval(func_eval, value_calc))

\* C1 (as claimed, for the runs that return): with a strictly monotonic
\* evaluation function and an iteration budget of at least 1, the value that
\* _iter_solver returns has |objective - func_eval(v)| <= precision, and
\* iterations <= num_iters_max.
C1_Claim ==
    (solver_pc = "returned" /\ StrictlyMonotonic(func_eval)
        /\ num_iters_max >= 1) =>
        (Residual <= precision /\ num_iter <= num_iters_max)

\* C2 (as claimed): for any evaluation function and any num_iters_max, 0
\* included, _iter_solver never returns normally with a candidate whose
\* residual exceeds precision.
C2_Claim ==
    solver_pc = "returned" => Residual <= precision

\* A step of the loop body that changes value_calc.
StepTaken == solver_pc = "loop" /\ num_iter' = num_iter + 1

StepDirection == IF value_calc' > value_calc THEN "up" ELSE "down"

\* C10 (as claimed): in every step, the first included, the increment is
\* halved exactly when the step's direction differs from the direction of the
\* step before, and is otherwise unchanged; then it is floored at
\* precision/20 and applied, so the applied step is >= precision/20 and, when
\* initial_increment >= precision/20, <= initial_increment.
C10_Original ==
    [][ StepTaken =>
          LET halve == last_step # "none" /\ StepDirection # last_step
          IN  /\ increment' = Max2(Floor(precision),
                                   IF halve THEN Half(increment) ELSE increment)
              /\ Abs(value_calc' - value_calc) = increment'
              /\ increment' >= Floor(precision)
              /\ initial_increment >= Floor(precision)
                    => increment' <= initial_increment ]_vars

\* C10 (amended): as C10, but in the first step the increment is halved
\* exactly when that step goes up (the flag starts as decreasing); in every
\* later step exactly when the direction differs from the step before.
C10_StepRule ==
    [][ StepTaken =>
          LET halve == IF last_step = "none" THEN StepDirection = "up"
                       ELSE StepDirection # last_step
          IN  /\ increment' = Max2(Floor(precision),
                                   IF halve THEN Half(increment) ELSE increment)
              /\ Abs(value_calc' - value_calc) = increment'
              /\ increment' >= Floor(precision)
              /\ initial_increment >= Floor(precision)
                    => increment' <= initial_increment ]_vars

\* C10 witness: after three or more steps, the last one down after an
\* overshoot, the increment has been halved down to the floor from a larger
\* initial increment.
C10_Witness ==
    /\ solver_pc = "loop" /\ num_iter >= 3 /\ last_step = "down"
    /\ error < 0 /\ objective_value > Eval(func_eval, initial_value)
    /\ increment = Floor(precision)
    /\ initial_increment > 2 * Floor(precision)

\* The halvings of the model are exact: a kept half is the half of an even
\* increment.
HalvingExact ==
    [][ (StepTaken /\ increment' < increment /\ increment' > Floor(precision))
          => increment = 2 * increment' ]_vars

\* ------------------------------------------------ batch: claim formulas
BatchEnded == batch_pc \in { "done", "failed" }

\* What _iter_solver does for the j-th objective (1-based), started from
\* func_init of that objective with the family's initial_increment and
\* precision, as the families table gives them.
Expected(j) ==
    RunSolver(func_eval, FuncInit(func_init, objective_values[j]),
              objective_values[j], families[family_name][2],
              families[family_name][3], NUM_ITERS_MAX)

ResidualOf(j, v) == Abs(objective_values[j] - Eval(func_eval, v))

\* C3: when the step solver raises on the k-th objective (k = idx, 0-based),
\* in testing mode the batch ends with that error and returns no array; in
\* normal mode it returns exactly the values solved for objectives 0..k-1,
\* in order; func_init was called for objectives 0..k and for no later one.
C3_ConvergencePolicy ==
    (BatchEnded /\ solver_pc = "raised") =>
        /\ Expected(idx + 1).pc = "raised"
        /\ init_calls = [ j \in 1..(idx + 1) |-> j - 1 ]
        /\ IF TESTING_MODE
           THEN batch_result = "ConvergenceError" /\ batch_return = << >>
           ELSE /\ batch_result = "returned"
                /\ Len(batch_return) = idx
                /\ \A j \in 1..idx :
                      /\ Expected(j).pc = "returned"
                      /\ batch_return[j] = Expected(j).value_calc

\* C3 witness: in normal mode the solver raised on the second of three
\* objectives and the batch returned the one value solved before it.
C3_Witness ==
    /\ ~TESTING_MODE /\ batch_result = "returned" /\ solver_pc = "raised"
    /\ idx = 1 /\ Len(objective_values) = 3 /\ Len(batch_return) = 1

\* C4: in normal mode, when every per-element solve converges, the batch
\* returns as many values as there are objectives, the j-th being the step
\* solver's result for the j-th objective; an empty objective list yields an
\* empty result without error, in either mode.
C4_AllConverge ==
    /\ (BatchEnded /\ ~TESTING_MODE /\ family_name \in DOMAIN families
          /\ \A j \in 1..Len(objective_values) : Expected(j).pc = "returned")
         => /\ batch_result = "returned"
            /\ Len(batch_return) = Len(objective_values)
            /\ \A j \in 1..Len(objective_values) :
                  batch_return[j] = Expected(j).value_calc
    /\ (BatchEnded /\ family_name \in DOMAIN families
          /\ objective_values = << >>)
         => (batch_result = "returned" /\ batch_return = << >>)

\* C4 witness: a normal-mode batch of three objectives returned three
\* values, the last one found after at least two iterations.
C4_Witness ==
    /\ ~TESTING_MODE /\ batch_result = "returned"
    /\ Len(objective_values) = 3 /\ Len(batch_return) = 3
    /\ num_iter >= 2

\* C5: in testing mode every value kept, and so every value of a returned
\* array, has a residual <= the family's checking precision, and a solved
\* value with a larger residual ends the batch with the result-quality
\* error; in normal mode that error is never raised.
C5_QualityCheck ==
    /\ (TESTING_MODE /\ family_name \in DOMAIN families) =>
          /\ \A j \in 1..Len(calc_points) :
                ResidualOf(j, calc_points[j]) <= families[family_name][1]
          /\ batch_result = "returned" => batch_return = calc_points
    /\ batch_result = "ResultQualityError" =>
          /\ TESTING_MODE
          /\ solver_pc = "returned"
          /\ ResidualOf(idx + 1, value_calc) > families[family_name][1]
    /\ (BatchEnded /\ TESTING_MODE /\ solver_pc = "returned"
          /\ idx < Len(objective_values))
         => batch_result = "ResultQualityError"

\* C5 witness: in testing mode the second solve returned a value that failed
\* the check, after a first value had passed it.
C5_Witness ==
    /\ batch_result = "ResultQualityError" /\ Len(calc_points) = 1

====
